---- MODULE Spec2Model ----
(***************************************************************************)
(* Graph container of codigo_a.js (variant A) and codigo_b.js (variant B). *)
(* Both variants are driven side by side by the same sequence of public    *)
(* calls, each on its own copy of the vertex and edge objects.             *)
(*                                                                         *)
(* GraphVertex and GraphEdge are collaborators whose code is not part of   *)
(* the sources; they are modelled from the contract of spec section 6:     *)
(* a vertex owns a list of incident edge references, an edge owns its two  *)
(* endpoint references and a weight, and its key is the pair of the keys   *)
(* of its endpoints.  Objects are compared by reference.                   *)
(***************************************************************************)
EXTENDS Integers, Sequences, FiniteSets, TLC

\* Number of public mutating calls explored.
MaxCalls == 5

NULL == "null"

Variants == {"A", "B"}

\* Vertex objects the caller owns; a1 and a2 are two objects with key "A".
VObjs == {"a1", "a2", "b1"}

VKey == [o \in VObjs |-> IF o = "b1" THEN "B" ELSE "A"]

\* Edge objects the caller owns: e1 and e3 derive the same key from different
\* start objects, e2 runs against e1, e4 is a loop.
EObjs == {"e1", "e2", "e3", "e4"}

\* Endpoints of the edge objects as the caller constructed them.
EStart0 == [e \in EObjs |-> CASE e = "e1" -> "a1" [] e = "e2" -> "b1"
                              [] e = "e3" -> "a2" [] OTHER -> "a1"]

EEnd0 == [e \in EObjs |-> CASE e = "e1" -> "b1" [] e = "e2" -> "a1"
                            [] e = "e3" -> "b1" [] OTHER -> "a1"]

\* GraphEdge.weight; never modified by the graph.
Weight == [e \in EObjs |-> CASE e = "e1" -> 2 [] e = "e2" -> 3
                             [] e = "e3" -> 0 - 1 [] OTHER -> 5]

VARIABLES g, isDirected, last, calls

vars == <<g, isDirected, last, calls>>

----------------------------------------------------------------------------
\* Keyed registries (JavaScript objects used as maps): insertion ordered.

Lookup(reg, k) ==
  IF \E i \in 1..Len(reg) : reg[i].key = k
  THEN reg[CHOOSE i \in 1..Len(reg) : reg[i].key = k].obj
  ELSE NULL

\* reg[k] = o : overwrites in place, or appends a new property.
Put(reg, k, o) ==
  IF \E i \in 1..Len(reg) : reg[i].key = k
  THEN [i \in 1..Len(reg) |-> IF reg[i].key = k THEN [key |-> k, obj |-> o] ELSE reg[i]]
  ELSE Append(reg, [key |-> k, obj |-> o])

\* delete reg[k]
Remove(reg, k) == SelectSeq(reg, LAMBDA r : r.key # k)

Values(reg) == [i \in 1..Len(reg) |-> reg[i].obj]

Keys(reg) == {reg[i].key : i \in 1..Len(reg)}

Range(q) == {q[i] : i \in 1..Len(q)}

----------------------------------------------------------------------------
\* GraphEdge collaborator.

edgeGetKey(s, e) == <<VKey[s.estart[e]], VKey[s.eend[e]]>>

edgeReverse(s, e) ==
  [s EXCEPT !.estart[e] = s.eend[e], !.eend[e] = s.estart[e]]

\* GraphVertex collaborator.

vertexAddEdge(s, v, e) == [s EXCEPT !.adj[v] = Append(@, e)]

vertexDeleteEdge(s, v, e) ==
  [s EXCEPT !.adj[v] = SelectSeq(@, LAMBDA x : x # e)]

\* The vertex at the other end of e, seen from v.
Neighbor(s, v, e) == IF s.estart[e] = v THEN s.eend[e] ELSE s.estart[e]

vertexGetNeighbors(s, v) ==
  [i \in 1..Len(s.adj[v]) |-> Neighbor(s, v, s.adj[v][i])]

vertexFindEdge(s, v, w) ==
  LET hits == {i \in 1..Len(s.adj[v]) : Neighbor(s, v, s.adj[v][i]) = w}
  IN  IF hits = {} THEN NULL
      ELSE s.adj[v][CHOOSE i \in hits : \A j \in hits : i <= j]

----------------------------------------------------------------------------
\* Graph: operations common to both variants.

NewGraph ==
  [vertices |-> << >>, edges |-> << >>,
   adj |-> [v \in VObjs |-> << >>],
   estart |-> EStart0, eend |-> EEnd0]

Ok(s) == [st |-> s, err |-> "none"]

Fail(s, why) == [st |-> s, err |-> why]

addVertex(s, v) == [s EXCEPT !.vertices = Put(@, VKey[v], v)]

getVertexByKey(s, k) == Lookup(s.vertices, k)

getAllVertices(s) == Values(s.vertices)

getAllEdges(s) == Values(s.edges)

\* reduce((total, edge) => total + edge.weight, 0) over a list of edges.
RECURSIVE SumWeights(_)
SumWeights(q) ==
  IF q = << >> THEN 0 ELSE Weight[Head(q)] + SumWeights(Tail(q))

----------------------------------------------------------------------------
\* Variant A (codigo_a.js).

A_addEdge(s, e) ==
  LET startFound == getVertexByKey(s, VKey[s.estart[e]])
      endFound   == getVertexByKey(s, VKey[s.eend[e]])
      s1 == IF startFound = NULL THEN addVertex(s, s.estart[e]) ELSE s
      startVertex == IF startFound = NULL
                     THEN getVertexByKey(s1, VKey[s.estart[e]]) ELSE startFound
      s2 == IF endFound = NULL THEN addVertex(s1, s.eend[e]) ELSE s1
      endVertex == IF endFound = NULL
                   THEN getVertexByKey(s2, VKey[s.eend[e]]) ELSE endFound
      k  == edgeGetKey(s, e)
      s3 == [s2 EXCEPT !.edges = Put(@, k, e)]
  IN  IF Lookup(s2.edges, k) # NULL THEN Fail(s2, "DuplicateEdge")
      ELSE IF isDirected THEN Ok(vertexAddEdge(s3, startVertex, e))
      ELSE Ok(vertexAddEdge(vertexAddEdge(s3, startVertex, e), endVertex, e))

A_deleteEdge(s, e) ==
  LET k  == edgeGetKey(s, e)
      s1 == [s EXCEPT !.edges = Remove(@, k)]
      startVertex == getVertexByKey(s1, VKey[s.estart[e]])
      endVertex   == getVertexByKey(s1, VKey[s.eend[e]])
  IN  IF Lookup(s.edges, k) = NULL THEN Fail(s, "EdgeNotFound")
      ELSE IF startVertex = NULL THEN Fail(s1, "TypeError")
      ELSE IF endVertex = NULL
           THEN Fail(vertexDeleteEdge(s1, startVertex, e), "TypeError")
      ELSE Ok(vertexDeleteEdge(vertexDeleteEdge(s1, startVertex, e), endVertex, e))

A_findEdge(s, startVertex, endVertex) ==
  LET vertex == getVertexByKey(s, VKey[startVertex])
  IN  IF vertex = NULL THEN NULL ELSE vertexFindEdge(s, vertex, endVertex)

\* Mutation: negative weights are left out of the total.
RECURSIVE SumPositiveWeights(_)
SumPositiveWeights(q) ==
  IF q = << >> THEN 0
  ELSE (IF Weight[Head(q)] > 0 THEN Weight[Head(q)] ELSE 0)
       + SumPositiveWeights(Tail(q))

A_getWeight_positiveOnly(s) == SumPositiveWeights(getAllEdges(s))

A_getWeight(s) == SumWeights(getAllEdges(s))

\* The forEach callback of reverse, run over the array getAllEdges() returned;
\* an exception thrown by deleteEdge or addEdge ends the loop.
RECURSIVE A_reverseEach(_, _)
A_reverseEach(s, q) ==
  IF q = << >> THEN Ok(s)
  ELSE LET d == A_deleteEdge(s, Head(q))
           a == A_addEdge(edgeReverse(d.st, Head(q)), Head(q))
       IN  IF d.err # "none" THEN d
           ELSE IF a.err # "none" THEN a
           ELSE A_reverseEach(a.st, Tail(q))

A_reverse(s) == A_reverseEach(s, getAllEdges(s))

----------------------------------------------------------------------------
\* Variant B (codigo_b.js).

\* Mutation: the missing vertex is not registered.
B_ensureVertexExists_skip(s, v) == s

B_ensureVertexExists(s, v) ==
  IF getVertexByKey(s, VKey[v]) = NULL THEN addVertex(s, v) ELSE s

B_connectVertices(s, e) ==
  LET s1 == vertexAddEdge(s, s.estart[e], e)
  IN  IF ~isDirected THEN vertexAddEdge(s1, s.eend[e], e) ELSE s1

\* Mutation: the duplicate check runs after the edge was connected.
B_addEdge_lateCheck(s, e) ==
  LET k  == edgeGetKey(s, e)
      s2 == B_ensureVertexExists(s, s.estart[e])
      s3 == B_ensureVertexExists(s2, s.eend[e])
  IN  IF Lookup(s.edges, k) # NULL THEN Fail(B_connectVertices(s3, e), "DuplicateEdge")
      ELSE Ok(B_connectVertices([s3 EXCEPT !.edges = Put(@, k, e)], e))

B_addEdge(s, e) ==
  LET k  == edgeGetKey(s, e)
      s1 == [s EXCEPT !.edges = Put(@, k, e)]
      s2 == B_ensureVertexExists(s1, s.estart[e])
      s3 == B_ensureVertexExists(s2, s.eend[e])
  IN  IF Lookup(s.edges, k) # NULL THEN Fail(s, "DuplicateEdge")
      ELSE Ok(B_connectVertices(s3, e))

\* Mutation: a start vertex left without edges is removed with its last edge.
B_deleteEdge_dropIsolated(s, e) ==
  LET k  == edgeGetKey(s, e)
      s1 == [s EXCEPT !.edges = Remove(@, k)]
      s2 == vertexDeleteEdge(vertexDeleteEdge(s1, s.estart[e], e), s.eend[e], e)
  IN  IF Lookup(s.edges, k) = NULL THEN Fail(s, "EdgeNotFound")
      ELSE IF s2.adj[s.estart[e]] = << >>
           THEN Ok([s2 EXCEPT !.vertices = Remove(@, VKey[s.estart[e]])])
      ELSE Ok(s2)

\* Mutation: the vertices drop the edge before the registry is checked.
B_deleteEdge_lateCheck(s, e) ==
  LET k  == edgeGetKey(s, e)
      s1 == vertexDeleteEdge(vertexDeleteEdge(s, s.estart[e], e), s.eend[e], e)
  IN  IF Lookup(s.edges, k) = NULL THEN Fail(s1, "EdgeNotFound")
      ELSE Ok([s1 EXCEPT !.edges = Remove(@, k)])

B_deleteEdge(s, e) ==
  LET k  == edgeGetKey(s, e)
      s1 == [s EXCEPT !.edges = Remove(@, k)]
  IN  IF Lookup(s.edges, k) = NULL THEN Fail(s, "EdgeNotFound")
      ELSE Ok(vertexDeleteEdge(vertexDeleteEdge(s1, s.estart[e], e), s.eend[e], e))

B_findEdge(s, startVertex, endVertex) ==
  vertexFindEdge(s, startVertex, endVertex)

B_getWeight(s) == SumWeights(getAllEdges(s))

\* Mutation: the edge is flipped before it is deleted.
RECURSIVE B_reverseEach_flipFirst(_, _)
B_reverseEach_flipFirst(s, q) ==
  IF q = << >> THEN Ok(s)
  ELSE LET d == B_deleteEdge(edgeReverse(s, Head(q)), Head(q))
           a == B_addEdge(d.st, Head(q))
       IN  IF d.err # "none" THEN d
           ELSE IF a.err # "none" THEN a
           ELSE B_reverseEach_flipFirst(a.st, Tail(q))

RECURSIVE B_reverseEach(_, _)
B_reverseEach(s, q) ==
  IF q = << >> THEN Ok(s)
  ELSE LET d == B_deleteEdge(s, Head(q))
           a == B_addEdge(edgeReverse(d.st, Head(q)), Head(q))
       IN  IF d.err # "none" THEN d
           ELSE IF a.err # "none" THEN a
           ELSE B_reverseEach(a.st, Tail(q))

B_reverse(s) == B_reverseEach(s, getAllEdges(s))

----------------------------------------------------------------------------
\* Adjacency matrix.  A cell is << >> for Infinity and <<w>> for a weight w;
\* a matrix is a sequence of rows.  `lost` is a set of <<vertex, neighbour>>
\* pairs for which the lookup of the connecting edge answers not-found; it
\* is empty in every call the graph's own bookkeeping can produce.

Infinite == << >>

\* verticesIndices[key], 0-based, in the order of getAllVertices().
getVerticesIndices(s) ==
  [k \in Keys(s.vertices) |->
     (CHOOSE i \in 1..Len(s.vertices) : s.vertices[i].key = k) - 1]

\* Array(n) rows of Array(n).fill(Infinity).
EmptyMatrix(n) == [i \in 1..n |-> [j \in 1..n |-> Infinite]]

\* matrix[i][j] = cell, i and j 0-based; an undefined j (-1 here) writes no
\* cell of the matrix.
SetCell(m, i, j, cell) ==
  IF j < 0 THEN m ELSE [m EXCEPT ![i + 1][j + 1] = cell]

\* verticesIndices[k], -1 standing for undefined.
IndexOrUndefined(s, k) ==
  IF k \in Keys(s.vertices) THEN getVerticesIndices(s)[k] ELSE 0 - 1

MatrixOk(m) == [m |-> m, err |-> "none"]

MatrixFail(why) == [m |-> NULL, err |-> why]

\* Variant A: the inner forEach over vertex.getNeighbors().
RECURSIVE A_fillNeighbors(_, _, _, _, _)
A_fillNeighbors(s, r, vertex, nbrs, lost) ==
  IF r.err # "none" \/ nbrs = << >> THEN r
  ELSE LET neighbor == Head(nbrs)
           found == IF <<vertex, neighbor>> \in lost THEN NULL
                    ELSE A_findEdge(s, vertex, neighbor)
           i == getVerticesIndices(s)[VKey[vertex]]
           j == IndexOrUndefined(s, VKey[neighbor])
       IN  IF found = NULL THEN MatrixFail("TypeError")
           ELSE A_fillNeighbors(s, MatrixOk(SetCell(r.m, i, j, <<Weight[found]>>)),
                                vertex, Tail(nbrs), lost)

\* Variant A: the outer forEach over the vertices.
RECURSIVE A_fillVertices(_, _, _, _)
A_fillVertices(s, r, vs, lost) ==
  IF r.err # "none" \/ vs = << >> THEN r
  ELSE A_fillVertices(s,
         A_fillNeighbors(s, r, Head(vs), vertexGetNeighbors(s, Head(vs)), lost),
         Tail(vs), lost)

A_getAdjacencyMatrixWith(s, lost) ==
  A_fillVertices(s, MatrixOk(EmptyMatrix(Len(getAllVertices(s)))),
                 getAllVertices(s), lost)

A_getAdjacencyMatrix(s) == A_getAdjacencyMatrixWith(s, {})

\* Variant B: the inner forEach; a failed lookup defaults to Infinity.
RECURSIVE B_fillNeighbors(_, _, _, _, _)
B_fillNeighbors(s, r, vertex, nbrs, lost) ==
  IF nbrs = << >> THEN r
  ELSE LET neighbor == Head(nbrs)
           found == IF <<vertex, neighbor>> \in lost THEN NULL
                    ELSE B_findEdge(s, vertex, neighbor)
           weight == IF found = NULL THEN Infinite ELSE <<Weight[found]>>
           i == getVerticesIndices(s)[VKey[vertex]]
           j == IndexOrUndefined(s, VKey[neighbor])
       IN  B_fillNeighbors(s, MatrixOk(SetCell(r.m, i, j, weight)),
                           vertex, Tail(nbrs), lost)

RECURSIVE B_fillVertices(_, _, _, _)
B_fillVertices(s, r, vs, lost) ==
  IF vs = << >> THEN r
  ELSE B_fillVertices(s,
         B_fillNeighbors(s, r, Head(vs), vertexGetNeighbors(s, Head(vs)), lost),
         Tail(vs), lost)

B_getAdjacencyMatrixWith(s, lost) ==
  B_fillVertices(s, MatrixOk(EmptyMatrix(Len(getAllVertices(s)))),
                 getAllVertices(s), lost)

B_getAdjacencyMatrix(s) == B_getAdjacencyMatrixWith(s, {})

----------------------------------------------------------------------------
\* The two variants behind one interface.

addEdge(v, s, e) == IF v = "A" THEN A_addEdge(s, e) ELSE B_addEdge(s, e)

deleteEdge(v, s, e) == IF v = "A" THEN A_deleteEdge(s, e) ELSE B_deleteEdge(s, e)

reverse(v, s) == IF v = "A" THEN A_reverse(s) ELSE B_reverse(s)

findEdge(v, s, x, y) ==
  IF v = "A" THEN A_findEdge(s, x, y) ELSE B_findEdge(s, x, y)

getWeight(v, s) == IF v = "A" THEN A_getWeight(s) ELSE B_getWeight(s)

getAdjacencyMatrix(v, s) ==
  IF v = "A" THEN A_getAdjacencyMatrix(s) ELSE B_getAdjacencyMatrix(s)

getAdjacencyMatrixWith(v, s, lost) ==
  IF v = "A" THEN A_getAdjacencyMatrixWith(s, lost)
  ELSE B_getAdjacencyMatrixWith(s, lost)

----------------------------------------------------------------------------
\* The caller: a bounded sequence of public calls on a new graph.

Init ==
  /\ isDirected \in BOOLEAN
  /\ g = [v \in Variants |-> NewGraph]
  /\ last = [op |-> "new", arg |-> NULL, err |-> [v \in Variants |-> "none"]]
  /\ calls = 0

AddVertex(x) ==
  /\ calls < MaxCalls
  /\ g' = [v \in Variants |-> addVertex(g[v], x)]
  /\ last' = [op |-> "addVertex", arg |-> x, err |-> [v \in Variants |-> "none"]]
  /\ calls' = calls + 1
  /\ UNCHANGED isDirected

AddEdge(e) ==
  /\ calls < MaxCalls
  /\ g' = [v \in Variants |-> addEdge(v, g[v], e).st]
  /\ last' = [op |-> "addEdge", arg |-> e,
              err |-> [v \in Variants |-> addEdge(v, g[v], e).err]]
  /\ calls' = calls + 1
  /\ UNCHANGED isDirected

DeleteEdge(e) ==
  /\ calls < MaxCalls
  /\ g' = [v \in Variants |-> deleteEdge(v, g[v], e).st]
  /\ last' = [op |-> "deleteEdge", arg |-> e,
              err |-> [v \in Variants |-> deleteEdge(v, g[v], e).err]]
  /\ calls' = calls + 1
  /\ UNCHANGED isDirected

Reverse ==
  /\ calls < MaxCalls
  /\ g' = [v \in Variants |-> reverse(v, g[v]).st]
  /\ last' = [op |-> "reverse", arg |-> NULL,
              err |-> [v \in Variants |-> reverse(v, g[v]).err]]
  /\ calls' = calls + 1
  /\ UNCHANGED isDirected

Next ==
  \/ \E x \in VObjs : AddVertex(x)
  \/ \E e \in EObjs : AddEdge(e)
  \/ \E e \in EObjs : DeleteEdge(e)
  \/ Reverse

Spec == Init /\ [][Next]_vars

\* The vertex x is registered and reports n as a neighbour.
Reports(s, x, n) ==
  /\ x \in Range(getAllVertices(s))
  /\ n \in Range(vertexGetNeighbors(s, x))

\* getAdjacencyMatrix() called while the vertex collaborator answers
\* not-found for the edge from x to its reported neighbour n.  The graph's
\* own calls never bring this about; the answer is an input from the
\* external collaborator.
GetAdjacencyMatrixLost(x, n) ==
  /\ calls < MaxCalls
  /\ \E v \in Variants : Reports(g[v], x, n)
  /\ last' = [op |-> "getAdjacencyMatrix", arg |-> <<x, n>>,
              err |-> [v \in Variants |->
                         getAdjacencyMatrixWith(v, g[v], {<<x, n>>}).err]]
  /\ calls' = calls + 1
  /\ UNCHANGED <<g, isDirected>>

NextLookupFault ==
  \/ Next
  \/ \E x \in VObjs : \E n \in VObjs : GetAdjacencyMatrixLost(x, n)

SpecLookupFault == Init /\ [][NextLookupFault]_vars

----------------------------------------------------------------------------
\* Vocabulary of the properties.

Registered(s, e) == e \in Range(getAllEdges(s))

InAdj(s, x, e) == e \in Range(s.adj[x])

StartKey(s, e) == VKey[s.estart[e]]

EndKey(s, e) == VKey[s.eend[e]]

\* The edge object stored under the key that e derives now.
Stored(s, e) == Lookup(s.edges, edgeGetKey(s, e))

Called(op, arg) == last'.op = op /\ last'.arg = arg

----------------------------------------------------------------------------
\* C1: in both variants every registered edge has the key of its start
\* vertex and the key of its end vertex in `vertices`; addEdge registers a
\* missing endpoint itself.
C1_EndpointsRegistered ==
  \A v \in Variants : \A e \in EObjs :
    Registered(g[v], e) =>
      /\ StartKey(g[v], e) \in Keys(g[v].vertices)
      /\ EndKey(g[v], e) \in Keys(g[v].vertices)

\* addEdge as the first call on an empty graph registered both endpoints.
C1_Witness ==
  /\ calls = 1 /\ last.op = "addEdge" /\ last.arg = "e1"
  /\ \A v \in Variants :
       Registered(g[v], "e1") /\ Keys(g[v].vertices) = {"A", "B"}

\* C2: for every registered vertex x and every edge e, e is in x's adjacency
\* exactly when e is registered and x is the vertex registered for e's start
\* key, or the graph is undirected and x is the vertex registered for e's
\* end key.
C2_AdjacencyMatchesEdges ==
  \A v \in Variants : \A k \in Keys(g[v].vertices) : \A e \in EObjs :
    InAdj(g[v], getVertexByKey(g[v], k), e) <=>
      /\ Registered(g[v], e)
      /\ \/ StartKey(g[v], e) = k
         \/ ~isDirected /\ EndKey(g[v], e) = k

\* C3: addEdge of an edge whose derived key is already registered fails and
\* changes nothing: registries, adjacency and the edge objects are as before.
C3_DuplicateAddNonMutating ==
  [][\A e \in EObjs : \A v \in Variants :
       (Called("addEdge", e) /\ Stored(g[v], e) # NULL) =>
          (last'.err[v] = "DuplicateEdge" /\ g'[v] = g[v])]_vars

\* A duplicate add was rejected, the argument being another object than the
\* registered edge with the same key.
C3_Witness ==
  /\ last.op = "addEdge" /\ last.arg = "e3"
  /\ \A v \in Variants : last.err[v] = "DuplicateEdge" /\ Registered(g[v], "e1")

\* C4: deleteEdge of an edge whose key is not registered fails and leaves
\* `vertices`, `edges` and every adjacency unchanged.
C4_DeleteMissingNonMutating ==
  [][\A e \in EObjs : \A v \in Variants :
       (Called("deleteEdge", e) /\ Stored(g[v], e) = NULL) =>
          (last'.err[v] = "EdgeNotFound" /\ g'[v] = g[v])]_vars

\* A failed deleteEdge on a graph that holds other edges and whose vertices
\* hold edges.
C4_Witness ==
  /\ last.op = "deleteEdge"
  /\ \A v \in Variants :
       /\ last.err[v] = "EdgeNotFound"
       /\ g[v].edges # << >>
       /\ \E x \in VObjs : g[v].adj[x] # << >>

\* C5: after a successful deleteEdge(e) the edge that was stored under e's
\* key is no longer registered and no vertex object keeps it in its
\* adjacency.
C5_DeleteLeavesNoReference ==
  [][\A e \in EObjs : \A v \in Variants :
       (Called("deleteEdge", e) /\ last'.err[v] = "none") =>
          /\ ~Registered(g'[v], Stored(g[v], e))
          /\ \A x \in VObjs : ~InAdj(g'[v], x, Stored(g[v], e))]_vars

\* C6: right after a successful addEdge(e), findEdge(e.startVertex,
\* e.endVertex) returns e.
C6_FindAfterAdd ==
  \A v \in Variants :
    (last.op = "addEdge" /\ last.err[v] = "none") =>
      findEdge(v, g[v], g[v].estart[last.arg], g[v].eend[last.arg]) = last.arg

\* C7: findEdge(x, y) is the lookup toward y made by the vertex registered
\* under x's key, and null when that key is not registered.
C7_FindResolvesByKey ==
  \A v \in Variants : \A x \in VObjs : \A y \in VObjs :
    findEdge(v, g[v], x, y) =
      IF getVertexByKey(g[v], VKey[x]) = NULL THEN NULL
      ELSE vertexFindEdge(g[v], getVertexByKey(g[v], VKey[x]), y)

\* The edges and neighbours a vertex shows, as sets.
Incident(s, x) == Range(s.adj[x])

NeighborSet(s, x) == Range(vertexGetNeighbors(s, x))

\* C8: on a directed graph two calls of reverse give back every edge's
\* endpoints, the edge registry and the adjacency; on an undirected graph
\* one call of reverse leaves every vertex's incident edges and neighbours
\* as they were.
C8_ReverseRoundTrip ==
  \A v \in Variants :
    LET once  == reverse(v, g[v]).st
        twice == reverse(v, once).st
    IN  IF isDirected
        THEN /\ twice.estart = g[v].estart
             /\ twice.eend = g[v].eend
             /\ Range(twice.edges) = Range(g[v].edges)
             /\ \A x \in VObjs : Incident(twice, x) = Incident(g[v], x)
        ELSE \A x \in VObjs :
               /\ Incident(once, x) = Incident(g[v], x)
               /\ NeighborSet(once, x) = NeighborSet(g[v], x)

\* C9: reverse never raises an error.
C9_ReverseNeverFails ==
  \A v \in Variants : last.op = "reverse" => last.err[v] = "none"

\* Sum of the weights of a set of edge objects.
RECURSIVE WeightOf(_)
WeightOf(S) ==
  IF S = {} THEN 0
  ELSE LET e == CHOOSE x \in S : TRUE IN Weight[e] + WeightOf(S \ {e})

\* C10: getWeight() is the sum of the weights of exactly the registered
\* edges, negative weights included; a successful addEdge of an edge of
\* weight w raises it by w and a successful deleteEdge of that registered
\* edge lowers it by w.
C10_WeightIsSumOfRegistered ==
  /\ [](\A v \in Variants :
          getWeight(v, g[v]) = WeightOf({e \in EObjs : Registered(g[v], e)}))
  /\ [][\A e \in EObjs : \A v \in Variants :
          /\ (Called("addEdge", e) /\ last'.err[v] = "none") =>
                getWeight(v, g'[v]) = getWeight(v, g[v]) + Weight[e]
          /\ (Called("deleteEdge", e) /\ last'.err[v] = "none"
                /\ Stored(g[v], e) = e) =>
                getWeight(v, g'[v]) = getWeight(v, g[v]) - Weight[e]]_vars

\* The edge of weight -1 was added, the edge of weight 3 was added and then
\* deleted: the total is -1.
C10_Witness ==
  /\ last.op = "deleteEdge" /\ last.arg = "e2"
  /\ \A v \in Variants :
       /\ last.err[v] = "none"
       /\ Registered(g[v], "e3")
       /\ getWeight(v, g[v]) = 0 - 1

\* The cell of matrix m for the vertex keys k1 (row) and k2 (column).
CellAt(s, m, k1, k2) ==
  m[getVerticesIndices(s)[k1] + 1][getVerticesIndices(s)[k2] + 1]

\* Some registered edge runs from key k1 to key k2, or the other way round
\* in an undirected graph.
EdgeBetween(s, k1, k2) ==
  \E e \in EObjs :
    /\ Registered(s, e)
    /\ \/ StartKey(s, e) = k1 /\ EndKey(s, e) = k2
       \/ ~isDirected /\ StartKey(s, e) = k2 /\ EndKey(s, e) = k1

\* C11: right after a successful addEdge of an edge from A to B of weight w,
\* getAdjacencyMatrix() returns an N x N matrix, N the number of registered
\* vertices, whose cell [idx(A)][idx(B)] is w; the cell [idx(B)][idx(A)] is
\* w too in an undirected graph; every cell whose vertices no registered
\* edge connects is infinite (so the reverse cell of a directed graph is
\* infinite unless an edge from B to A is registered).
C11_MatrixCells ==
  \A v \in Variants :
    (last.op = "addEdge" /\ last.err[v] = "none") =>
      LET s == g[v]
          r == getAdjacencyMatrix(v, s)
          n == Len(getAllVertices(s))
          a == StartKey(s, last.arg)
          b == EndKey(s, last.arg)
      IN  /\ r.err = "none"
          /\ Len(r.m) = n
          /\ \A i \in 1..n : Len(r.m[i]) = n
          /\ CellAt(s, r.m, a, b) = <<Weight[last.arg]>>
          /\ ~isDirected => CellAt(s, r.m, b, a) = <<Weight[last.arg]>>
          /\ \A k1 \in Keys(s.vertices) : \A k2 \in Keys(s.vertices) :
               ~EdgeBetween(s, k1, k2) => CellAt(s, r.m, k1, k2) = Infinite

\* C12: no call removes a vertex key: the key set of `vertices` never
\* shrinks, and deleteEdge and reverse leave it exactly as it was.
C12_VerticesNeverRemoved ==
  [][\A v \in Variants :
       /\ Keys(g[v].vertices) \subseteq Keys(g'[v].vertices)
       /\ last'.op \in {"deleteEdge", "reverse"} =>
            Keys(g'[v].vertices) = Keys(g[v].vertices)]_vars

\* The only edge of the graph was deleted: both vertices are left without
\* edges and are still registered.
C12_Witness ==
  /\ last.op = "deleteEdge" /\ last.arg = "e1"
  /\ \A v \in Variants :
       /\ last.err[v] = "none"
       /\ g[v].edges = << >>
       /\ \A x \in VObjs : g[v].adj[x] = << >>
       /\ Keys(g[v].vertices) = {"A", "B"}

\* The registered edge objects.
RegisteredSet(s) == {e \in EObjs : Registered(s, e)}

\* C13: reverse() on a directed graph handles every edge of the edge set it
\* started with exactly once: afterwards the registered edges are the same
\* edge objects, as many as before, each with start and end swapped, and no
\* other edge object was touched.
C13_ReverseFlipsEachOnce ==
  [][(last'.op = "reverse" /\ isDirected) =>
       \A v \in Variants :
         /\ RegisteredSet(g'[v]) = RegisteredSet(g[v])
         /\ Len(g'[v].edges) = Len(g[v].edges)
         /\ \A e \in EObjs :
              IF Registered(g[v], e)
              THEN /\ g'[v].estart[e] = g[v].eend[e]
                   /\ g'[v].eend[e] = g[v].estart[e]
              ELSE /\ g'[v].estart[e] = g[v].estart[e]
                   /\ g'[v].eend[e] = g[v].eend[e]]_vars

\* C14: when getAdjacencyMatrix() meets a neighbour n reported by a
\* registered vertex x for which the edge lookup returns no edge, the call
\* fails with an error instead of returning a matrix.
C14_LostLookupFailsLoudly ==
  \A v \in Variants :
    (last.op = "getAdjacencyMatrix"
       /\ Reports(g[v], last.arg[1], last.arg[2])) =>
      last.err[v] # "none"

\* C15: every entry of `edges` is stored under the key its edge derives now,
\* also after reverse() flipped the edge, and no two registered edges derive
\* the same key.
C15_StoredUnderCurrentKey ==
  \A v \in Variants : \A i \in 1..Len(g[v].edges) :
    /\ g[v].edges[i].key = edgeGetKey(g[v], g[v].edges[i].obj)
    /\ \A j \in 1..Len(g[v].edges) :
         edgeGetKey(g[v], g[v].edges[i].obj) = edgeGetKey(g[v], g[v].edges[j].obj)
           => i = j

\* reverse() flipped e1 to run from b1 to a1 and registered it under the
\* flipped key, next to another registered edge.
C15_Witness ==
  /\ last.op = "reverse"
  /\ \A v \in Variants :
       /\ last.err[v] = "none"
       /\ g[v].estart["e1"] = "b1" /\ g[v].eend["e1"] = "a1"
       /\ Lookup(g[v].edges, <<"B", "A">>) = "e1"
       /\ Len(g[v].edges) = 2

\* What a caller can observe of a graph: both registries, every vertex
\* object's adjacency, the edge objects' endpoints, and the results of
\* findEdge, getWeight and getAdjacencyMatrix.
Observable(v) ==
  [vertices |-> g[v].vertices,
   edges    |-> g[v].edges,
   adj      |-> g[v].adj,
   estart   |-> g[v].estart,
   eend     |-> g[v].eend,
   found    |-> [x \in VObjs |-> [y \in VObjs |-> findEdge(v, g[v], x, y)]],
   weight   |-> getWeight(v, g[v]),
   matrix   |-> getAdjacencyMatrix(v, g[v]),
   err      |-> last.err[v]]

\* C16: after every call of the same call sequence the two variants have
\* raised an error on the same calls and show the same registries, the same
\* adjacency and the same findEdge, getWeight and getAdjacencyMatrix
\* results.
C16_VariantsEquivalent == Observable("A") = Observable("B")

====
